---------------------------- MODULE Spec2Model ----------------------------
(* Model of the "save" pipeline of the telegram -> SiYuan inbox relay:     *)
(* save_command (functions.py), generate_summary / scrape_url_content /    *)
(* truncate_for_openai (functions_ai.py) and push_to_siyuan /              *)
(* process_telegram_message (functions_siyuan.py).                         *)
(*                                                                         *)
(* Texts are run-length encoded character strings: a text is a sequence of *)
(* runs <<c, n>>, n >= 1, adjacent runs carrying different characters.     *)
(* A character is a one-character string; "#" stands for one character of  *)
(* a strftime rendering (digits, '-', ':' or the blank inside it).         *)
EXTENDS Integers, Sequences, FiniteSets, TLC

\* ------------------------------------------------------------------ bounds
\* sizes of the sample inputs: a long message, the tail that makes a URL
\* longer than the title prefix, and the excess of an over-long text
LongTextLen == 200
UrlTailLen == 40
Excess == 952

\* bot processes started side by side, and handlers running side by side
NumProcs == 3
NumInvocations == 2

\* ------------------------------------------------------- program constants
MAX_CONTENT_LENGTH == 2048
LongThreshold == 128
UrlTitleChars == 30

TXT_MISSING_CONTENT == "TXT_MISSING_CONTENT"
TXT_SEND_FAILED == "TXT_SEND_FAILED"
TXT_SEND_SUCCESS == "TXT_SEND_SUCCESS"
TXT_SEND_SUCCESS_WITH_TITLE == "TXT_SEND_SUCCESS_WITH_TITLE"

\* ------------------------------------------------------------ text algebra
\* concatenation of two texts: the runs meeting at the seam are merged
Cat(a, b) ==
    IF Len(a) = 0 THEN b
    ELSE IF Len(b) = 0 THEN a
    ELSE IF a[Len(a)][1] = b[1][1]
         THEN SubSeq(a, 1, Len(a) - 1)
              \o << <<b[1][1], a[Len(a)][2] + b[1][2]>> >>
              \o Tail(b)
         ELSE a \o b

\* c repeated n times
Rep(c, n) == IF n = 0 THEN << >> ELSE << <<c, n>> >>

\* the text of a plain sequence of characters
RECURSIVE LitUpTo(_, _)
LitUpTo(s, k) == IF k = 0 THEN << >> ELSE Cat(LitUpTo(s, k - 1), Rep(s[k], 1))

Lit(s) == LitUpTo(s, Len(s))

RECURSIVE TLen(_)
TLen(t) == IF Len(t) = 0 THEN 0 ELSE Head(t)[2] + TLen(Tail(t))

\* character at 1-based position i (i <= TLen(t))
RECURSIVE CharAt(_, _)
CharAt(t, i) == IF i <= Head(t)[2] THEN Head(t)[1] ELSE CharAt(Tail(t), i - Head(t)[2])

\* python slice t[:k]
RECURSIVE Take(_, _)
Take(t, k) ==
    IF k <= 0 \/ Len(t) = 0 THEN << >>
    ELSE IF Head(t)[2] >= k THEN << <<Head(t)[1], k>> >>
         ELSE <<Head(t)>> \o Take(Tail(t), k - Head(t)[2])

IsSpace(c) == c \in {" ", "\n"}

RECURSIVE LStrip(_)
LStrip(t) == IF Len(t) > 0 /\ IsSpace(Head(t)[1]) THEN LStrip(Tail(t)) ELSE t

RECURSIVE RStrip(_)
RStrip(t) ==
    IF Len(t) > 0 /\ IsSpace(t[Len(t)][1]) THEN RStrip(SubSeq(t, 1, Len(t) - 1)) ELSE t

\* str.strip()
Strip(t) == RStrip(LStrip(t))

\* str.startswith(p), p a plain sequence of characters
StartsWith(t, p) == /\ TLen(t) >= Len(p)
                    /\ \A i \in 1..Len(p) : CharAt(t, i) = p[i]

\* str.lower() on the letters of the alphabet in use
Lower(c) == CASE c = "H" -> "h" [] c = "T" -> "t" [] c = "P" -> "p"
              [] c = "S" -> "s" [] c = "A" -> "a" [] c = "B" -> "b"
              [] OTHER -> c

StartsWithIgnoreCase(t, p) == /\ TLen(t) >= Len(p)
                              /\ \A i \in 1..Len(p) : Lower(CharAt(t, i)) = p[i]

\* " ".join(words)
RECURSIVE Join(_)
Join(ws) == IF Len(ws) = 0 THEN << >>
            ELSE IF Len(ws) = 1 THEN ws[1]
            ELSE Cat(Cat(ws[1], Lit(<<" ">>)), Join(Tail(ws)))

\* -------------------------------------------------------------- classifier
HttpPrefix == <<"h", "t", "t", "p", ":", "/", "/">>
HttpsPrefix == <<"h", "t", "t", "p", "s", ":", "/", "/">>

\* re.match(r'^https?://[^\s]+\.[^\s]+', s, re.IGNORECASE) after a scheme of
\* n characters: a dot at position j with at least one non-blank character
\* between scheme and dot, none of them blank, and a non-blank one after it
DotAfter(s, n) ==
    \E j \in (n + 2)..(TLen(s) - 1) :
        /\ CharAt(s, j) = "."
        /\ ~IsSpace(CharAt(s, j + 1))
        /\ \A k \in (n + 1)..(j - 1) : ~IsSpace(CharAt(s, k))

UrlPatternMatch(s) ==
    \/ StartsWithIgnoreCase(s, HttpPrefix) /\ DotAfter(s, Len(HttpPrefix))
    \/ StartsWithIgnoreCase(s, HttpsPrefix) /\ DotAfter(s, Len(HttpsPrefix))

IsSimpleUrl(s) == StartsWith(s, HttpPrefix) \/ StartsWith(s, HttpsPrefix)

\* variant: the pattern alone, without the startswith fallback
is_url_PatternOnly(text) == UrlPatternMatch(Strip(text))

is_url(text) == UrlPatternMatch(Strip(text)) \/ IsSimpleUrl(Strip(text))

\* ------------------------------------------------------------- truncation
Ellipsis == Lit(<<".", ".", ".">>)

\* variant: the ellipsis is appended to a full-length prefix
truncate_for_openai_NoRoom(text) ==
    IF TLen(text) <= MAX_CONTENT_LENGTH THEN text
    ELSE Cat(Take(text, MAX_CONTENT_LENGTH), Ellipsis)

truncate_for_openai(text) ==
    IF TLen(text) <= MAX_CONTENT_LENGTH THEN text
    ELSE Cat(Take(text, MAX_CONTENT_LENGTH - 3), Ellipsis)


\* ------------------------------------------------------ optional values
None == [set |-> FALSE, v |-> << >>]
Some(t) == [set |-> TRUE, v |-> t]
\* variant: "is not None" in place of truthiness
Truthy_SetOnly(o) == o.set

\* python truthiness of an optional string
Truthy(o) == o.set /\ TLen(o.v) > 0

\* ---------------------------------------------------------------- inputs
Hello == Lit(<<"h", "e", "l", "l", "o">>)
ShortUrl == Cat(Lit(HttpsPrefix), Lit(<<"e", "x", ".", "c", "o", "m", "/", "p">>))
LongUrl == Cat(ShortUrl, Rep("a", UrlTailLen))
VeryLongUrl == Cat(ShortUrl, Rep("a", LongThreshold + 2))
UpperUrl == Lit(<<"H", "T", "T", "P", ":", "/", "/", "A", ".", "B">>)
NoDotUrl == Lit(<<"h", "t", "t", "p", ":", "/", "/", "x">>)
FtpUrl == Lit(<<"f", "t", "p", ":", "/", "/", "a", ".", "b">>)

\* context.args: the words after the command, split on white space
ArgsInputs ==
    { << >>, <<Hello>>, <<Hello, Hello>>,
      <<ShortUrl>>, <<LongUrl>>, <<VeryLongUrl>>, <<UpperUrl>>, <<NoDotUrl>>,
      <<FtpUrl>>, <<ShortUrl, Hello>>,
      <<Rep("a", LongThreshold)>>, <<Rep("a", LongThreshold + 1)>>,
      <<Rep("a", LongTextLen)>>, <<Rep("a", MAX_CONTENT_LENGTH + Excess)>>,
      <<Rep("a", MAX_CONTENT_LENGTH)>>, <<Rep("a", MAX_CONTENT_LENGTH + 1)>>,
      <<Rep("a", MAX_CONTENT_LENGTH - 1), Hello>> }

\* what requests.get + BeautifulSoup hand back to scrape_url_content
PageTitle == Lit(<<"T">>)
FetchResponses ==
    { [kind |-> "page", title |-> Some(PageTitle), text |-> Rep("b", 10)],
      [kind |-> "page", title |-> Some(PageTitle), text |-> Rep("b", MAX_CONTENT_LENGTH + Excess)],
      [kind |-> "page", title |-> None, text |-> Rep("b", 10)],
      [kind |-> "http_error", title |-> None, text |-> << >>],
      [kind |-> "timeout", title |-> None, text |-> << >>] }

\* what client.chat.completions.create + json.loads produce
Headline == Lit(<<"N", "e", "w", "s">>)
SummaryBody == Lit(<<"s", "u", "m">>)
SummarizerResponses ==
    { [kind |-> "api_error", json |-> << >>],
      [kind |-> "bad_json", json |-> << >>],
      [kind |-> "json", json |-> [k \in {"h", "s"} |-> IF k = "h" THEN Headline ELSE SummaryBody]],
      [kind |-> "json", json |-> [k \in {"h", "s"} |-> IF k = "h" THEN << >> ELSE SummaryBody]],
      [kind |-> "json", json |-> [k \in {"h"} |-> Headline]],
      [kind |-> "json", json |-> [k \in {"s"} |-> SummaryBody]] }

\* how the curl subprocess ends: exit status 0, non-zero, or not startable
CurlOutcomes == {"rc_zero", "rc_nonzero", "os_error"}

\* ------------------------------------------------------------- rendering
User == "user"
Hostname == "host"
\* datetime.now().strftime("%Y-%m-%d %H:%M") and strftime("%Y-%m-%d")
Timestamp == Rep("#", 16)
Today == Rep("#", 10)

format_siyuan_content(content, user, hostname) ==
    IF is_url(Strip(content))
    THEN [template |-> "URL Bookmark", submit |-> Timestamp, by |-> <<user, hostname>>,
          heading |-> << >>, summary |-> << >>,
          display |-> [link |-> TRUE, text |-> Strip(content)]]
    ELSE [template |-> "input via telegram", submit |-> Timestamp, by |-> <<user, hostname>>,
          heading |-> << >>, summary |-> << >>,
          display |-> [link |-> FALSE, text |-> content]]

\* f"URL: {url[:30]}{'...' if len(url) > 30 else ''}"
UrlTitle(url) ==
    Cat(Lit(<<"U", "R", "L", ":", " ">>),
        Cat(Take(url, UrlTitleChars), IF TLen(url) > UrlTitleChars THEN Ellipsis ELSE << >>))

TelegramTitle == Cat(Lit(<<"t", "e", "l", "e", "g", "r", "a", "m", " ">>), Timestamp)

\* the AI branch of save_command: title and body built from summary_result
AiTitle(h) == Cat(Cat(Today, Lit(<<" ">>)), h)

AiContent(result, message_text, is_url_message, user, hostname) ==
    [template |-> "AI", submit |-> Timestamp, by |-> <<user, hostname>>,
     heading |-> result["h"], summary |-> result["s"],
     display |-> IF is_url_message
                 THEN [link |-> TRUE, text |-> Strip(message_text)]
                 ELSE [link |-> FALSE, text |-> message_text]]

\* process_telegram_message: body from the central formatter, title from its
\* own startswith test
ProcessTelegramPayload(message_text, user, hostname) ==
    [content |-> format_siyuan_content(message_text, user, hostname),
     title |-> IF IsSimpleUrl(Strip(message_text))
               THEN Some(UrlTitle(Strip(message_text)))
               ELSE Some(TelegramTitle)]

\* scrape_url_content on a fetched page: header, body, cap at 2048
ScrapedText(url, page) ==
    LET page_title == IF page.title.set THEN page.title.v
                      ELSE Lit(<<"N", "o", " ", "t", "i", "t", "l", "e">>)
        scraped == Cat(Lit(<<"U", "R", "L", ":", " ">>),
                Cat(url,
                Cat(Lit(<<"\n", "T", "i", "t", "l", "e", ":", " ">>),
                Cat(page_title,
                Cat(Lit(<<"\n", "\n", "C", "o", "n", "t", "e", "n", "t", ":", "\n">>),
                    page.text)))))
    IN  IF TLen(scraped) > MAX_CONTENT_LENGTH
        THEN Cat(Take(scraped, MAX_CONTENT_LENGTH - 3), Ellipsis)
        ELSE scraped

\* ------------------------------------------------------------------ state
VARIABLES
    env,             \* os.environ: which of OPENAI_TOKEN, SIYUAN_TOKEN are set
    pc,              \* position of the running save_command ("idle": none)
    args,            \* context.args
    message_text,    \* ' '.join(context.args)
    is_url_message,
    gs,              \* frame of generate_summary: [text, is_scraped]
    summary,         \* what generate_summary returned: [success, result]
    locals,          \* ai_used, summary_text, title, custom_title
    payload,         \* the JSON payload built by push_to_siyuan: [title, content]
    inbox,           \* whether the inbox service answers the running curl
    outcome,         \* what push_to_siyuan returned: [success, response]
    fetches,         \* scrape_url_content calls of this invocation: [url, ok]
    openaiCalls,     \* requests sent to the summarizer by this invocation
    pushes,          \* payloads handed to push_to_siyuan by this invocation
    curlRuns,        \* curl subprocesses started by this invocation
    replies          \* messages sent back to the chat by this invocation

\* the bot processes of main.py and the lock file they share
VARIABLES
    procPc,          \* position of each process in main / acquire_lock
    lock_file_handle,\* per process: the module global is an open file
    lockHolders,     \* processes whose open file holds the flock on LOCK_FILE
    lockFile,        \* content of LOCK_FILE: 0 when empty, else the PID written
    ran,             \* per process: run_polling was entered
    exitPath         \* per process: how main was left

\* handlers of one application running side by side
VARIABLES
    cstate,          \* per invocation: position, inputs, calls made, answers got
    cframe           \* per frame of save_command: its local variables

saveVars == <<env, pc, args, message_text, is_url_message, gs, summary, locals,
              payload, inbox, outcome, fetches, openaiCalls, pushes, curlRuns, replies>>
lockVars == <<procPc, lock_file_handle, lockHolders, lockFile, ran, exitPath>>
concVars == <<cstate, cframe>>

vars == <<saveVars, lockVars, concVars>>

NoFrame == [text |-> << >>, is_scraped |-> FALSE]
NoSummary == [returned |-> FALSE, success |-> FALSE, result |-> << >>]
InitLocals == [ai_used |-> FALSE, summary_text |-> None, title |-> None,
               custom_title |-> None]
NoPayload == [built |-> FALSE, title |-> << >>, content |-> [template |-> "none"]]
NoOutcome == [returned |-> FALSE, success |-> FALSE, response |-> ""]

\* the state of an invocation that has not been received
NoAnswers == [fetch |-> [kind |-> "none", title |-> None, text |-> << >>],
              summarizer |-> [kind |-> "none", json |-> << >>],
              curl |-> "none"]
IdleInvocation ==
    [pc |-> "idle", args |-> << >>, message_text |-> << >>, is_url_message |-> FALSE,
     gs |-> NoFrame, summary |-> NoSummary, pushes |-> << >>, inbox |-> "unused",
     outcome |-> NoOutcome, replies |-> << >>, got |-> NoAnswers]

Fresh ==
    /\ args = << >>
    /\ message_text = << >>
    /\ is_url_message = FALSE
    /\ gs = NoFrame
    /\ summary = NoSummary
    /\ locals = InitLocals
    /\ payload = NoPayload
    /\ inbox = "unused"
    /\ outcome = NoOutcome
    /\ fetches = << >>
    /\ openaiCalls = << >>
    /\ pushes = << >>
    /\ curlRuns = 0
    /\ replies = << >>

Procs == 1..NumProcs

\* no bot process was started yet; the lock file is empty and unlocked
LockIdle ==
    /\ procPc = [p \in Procs |-> "not_started"]
    /\ lock_file_handle = [p \in Procs |-> FALSE]
    /\ lockHolders = {}
    /\ lockFile = 0
    /\ ran = [p \in Procs |-> FALSE]
    /\ exitPath = [p \in Procs |-> "none"]

Invs == 1..NumInvocations

\* no handler is running
ConcIdle ==
    /\ cstate = [i \in Invs |-> IdleInvocation]
    /\ cframe = [i \in Invs |-> InitLocals]

Init ==
    /\ env \in [OPENAI_TOKEN : BOOLEAN, SIYUAN_TOKEN : BOOLEAN]
    /\ pc = "idle"
    /\ Fresh
    /\ LockIdle
    /\ ConcIdle

\* the dispatcher hands a /s update to save_command
Receive(a) ==
    /\ pc = "idle"
    /\ pc' = "RECEIVED"
    /\ args' = a
    /\ UNCHANGED <<env, lockVars, concVars, message_text, is_url_message, gs, summary, locals, payload,
                   inbox, outcome, fetches, openaiCalls, pushes, curlRuns, replies>>

\* variant: the reply is sent but the handler does not return
MissingContent_NoReturn ==
    /\ pc = "RECEIVED"
    /\ Len(args) = 0
    /\ replies' = Append(replies, [text |-> TXT_MISSING_CONTENT, title |-> << >>])
    /\ message_text' = Join(args)
    /\ is_url_message' = is_url(Join(args))
    /\ pc' = "CLASSIFIED"
    /\ UNCHANGED <<env, lockVars, concVars, args, gs, summary, locals, payload, inbox, outcome,
                   fetches, openaiCalls, pushes, curlRuns>>

\* save_command, "if not context.args": reply and return
MissingContent ==
    /\ pc = "RECEIVED"
    /\ Len(args) = 0
    /\ replies' = Append(replies, [text |-> TXT_MISSING_CONTENT, title |-> << >>])
    /\ pc' = "NOTIFIED"
    /\ UNCHANGED <<env, lockVars, concVars, args, message_text, is_url_message, gs, summary, locals,
                   payload, inbox, outcome, fetches, openaiCalls, pushes, curlRuns>>

\* save_command up to the classification of the joined text
Classify ==
    /\ pc = "RECEIVED"
    /\ Len(args) > 0
    /\ message_text' = Join(args)
    /\ is_url_message' = is_url(Join(args))
    /\ pc' = "CLASSIFIED"
    /\ UNCHANGED <<env, lockVars, concVars, args, gs, summary, locals, payload, inbox, outcome,
                   fetches, openaiCalls, pushes, curlRuns, replies>>

\* variant: only the length triggers the AI branch
Trigger_LongOnly(text, isurl) == TLen(text) > LongThreshold

\* the trigger of the AI branch
Trigger(text, isurl) == TLen(text) > LongThreshold \/ isurl

\* save_command calls generate_summary(message_text)
CallGenerateSummary ==
    /\ pc = "CLASSIFIED"
    /\ Trigger(message_text, is_url_message)
    /\ gs' = [text |-> message_text, is_scraped |-> FALSE]
    /\ pc' = "gs_entry"
    /\ UNCHANGED <<env, lockVars, concVars, args, message_text, is_url_message, summary, locals, payload,
                   inbox, outcome, fetches, openaiCalls, pushes, curlRuns, replies>>

\* generate_summary: the text is a URL that was not scraped yet
NeedsScrape(frame) == ~frame.is_scraped /\ is_url(Strip(frame.text))

\* variant: after a successful scrape generate_summary is re-entered on the
\* URL itself, without the is_scraped flag
ScrapeUrl_Refetch(resp) ==
    /\ pc = "gs_entry"
    /\ NeedsScrape(gs)
    /\ fetches' = Append(fetches, [url |-> Strip(gs.text), ok |-> (resp.kind = "page")])
    /\ gs' = gs
    /\ pc' = IF resp.kind = "page" THEN "gs_entry" ELSE "gs_client"
    /\ UNCHANGED <<env, lockVars, concVars, args, message_text, is_url_message, summary, locals, payload,
                   inbox, outcome, openaiCalls, pushes, curlRuns, replies>>

\* variant: a failed scrape is returned as the failure of generate_summary
ScrapeUrl_AbortOnFailure(resp) ==
    /\ pc = "gs_entry"
    /\ NeedsScrape(gs)
    /\ fetches' = Append(fetches, [url |-> Strip(gs.text), ok |-> (resp.kind = "page")])
    /\ IF resp.kind = "page"
       THEN /\ gs' = [text |-> ScrapedText(Strip(gs.text), resp), is_scraped |-> TRUE]
            /\ summary' = summary
            /\ pc' = "gs_entry"
       ELSE /\ gs' = gs
            /\ summary' = [returned |-> TRUE, success |-> FALSE, result |-> << >>]
            /\ pc' = "ENRICHED"
    /\ UNCHANGED <<env, lockVars, concVars, args, message_text, is_url_message, locals, payload,
                   inbox, outcome, openaiCalls, pushes, curlRuns, replies>>

\* generate_summary scrapes; on success it calls itself on the scraped text
\* with is_scraped=True, on failure it falls through with the URL
ScrapeUrl(resp) ==
    /\ pc = "gs_entry"
    /\ NeedsScrape(gs)
    /\ fetches' = Append(fetches, [url |-> Strip(gs.text), ok |-> (resp.kind = "page")])
    /\ IF resp.kind = "page"
       THEN /\ gs' = [text |-> ScrapedText(Strip(gs.text), resp), is_scraped |-> TRUE]
            /\ pc' = "gs_entry"
       ELSE /\ gs' = gs
            /\ pc' = "gs_client"
    /\ UNCHANGED <<env, lockVars, concVars, args, message_text, is_url_message, summary, locals, payload,
                   inbox, outcome, openaiCalls, pushes, curlRuns, replies>>

SkipScrape ==
    /\ pc = "gs_entry"
    /\ ~NeedsScrape(gs)
    /\ pc' = "gs_client"
    /\ UNCHANGED <<env, lockVars, concVars, args, message_text, is_url_message, gs, summary, locals,
                   payload, inbox, outcome, fetches, openaiCalls, pushes, curlRuns,
                   replies>>

\* get_openai_client() returned None
NoOpenAIClient ==
    /\ pc = "gs_client"
    /\ ~env.OPENAI_TOKEN
    /\ summary' = [returned |-> TRUE, success |-> FALSE, result |-> << >>]
    /\ pc' = "ENRICHED"
    /\ UNCHANGED <<env, lockVars, concVars, args, message_text, is_url_message, gs, locals, payload,
                   inbox, outcome, fetches, openaiCalls, pushes, curlRuns, replies>>

\* the try block of generate_summary: any exception, the KeyError of
\* result['h'] included, becomes (False, str(e))
ParseSummary(resp) ==
    IF resp.kind = "json" /\ "h" \in DOMAIN resp.json
    THEN [returned |-> TRUE, success |-> TRUE, result |-> resp.json]
    ELSE [returned |-> TRUE, success |-> FALSE, result |-> << >>]

CallOpenAI(resp) ==
    /\ pc = "gs_client"
    /\ env.OPENAI_TOKEN
    /\ openaiCalls' = Append(openaiCalls,
           [content |-> truncate_for_openai(gs.text), is_scraped |-> gs.is_scraped])
    /\ summary' = ParseSummary(resp)
    /\ pc' = "ENRICHED"
    /\ UNCHANGED <<env, lockVars, concVars, args, message_text, is_url_message, gs, locals, payload,
                   inbox, outcome, fetches, pushes, curlRuns, replies>>

UrlBookmarkLabel ==
    Lit(<<"U", "R", "L", " ", "b", "o", "o", "k", "m", "a", "r", "k">>)

\* save_command, "if success:" after generate_summary: the locals are set,
\* the body is rendered (summary_result['s'] raises KeyError when the key is
\* absent and nothing in save_command catches it) and push_to_siyuan is called
FormatWithSummary ==
    /\ pc = "ENRICHED"
    /\ summary.success
    /\ locals' = [ai_used |-> TRUE,
                  summary_text |-> Some(summary.result["h"]),
                  title |-> Some(AiTitle(summary.result["h"])),
                  custom_title |-> Some(summary.result["h"])]
    /\ IF "s" \in DOMAIN summary.result
       THEN /\ pushes' = Append(pushes,
                   [content |-> AiContent(summary.result, message_text, is_url_message,
                                          User, Hostname),
                    title |-> Some(AiTitle(summary.result["h"]))])
            /\ pc' = "FORMATTED"
       ELSE /\ pushes' = pushes
            /\ pc' = "CRASHED"
    /\ UNCHANGED <<env, lockVars, concVars, args, message_text, is_url_message, gs, summary, payload,
                   inbox, outcome, fetches, openaiCalls, curlRuns, replies>>

\* variant: every plain save goes through process_telegram_message
PlainCall_NoUrlBranch(text, isurl) == ProcessTelegramPayload(text, User, Hostname)

\* the plain rendering shared by the "summary failed" branch and the
\* "short message" branch of save_command
PlainCall(text, isurl) ==
    IF isurl
    THEN [content |-> format_siyuan_content(text, User, Hostname),
          title |-> Some(UrlTitle(Strip(text)))]
    ELSE ProcessTelegramPayload(text, User, Hostname)

\* variant: the label is set whether or not the input is a URL
PlainLocals_AlwaysLabel(isurl) == [InitLocals EXCEPT !.custom_title = Some(UrlBookmarkLabel)]

PlainLocals(isurl) ==
    IF isurl THEN [InitLocals EXCEPT !.custom_title = Some(UrlBookmarkLabel)]
    ELSE InitLocals

\* save_command, "else:" after generate_summary failed
FormatDegraded ==
    /\ pc = "ENRICHED"
    /\ ~summary.success
    /\ locals' = PlainLocals(is_url_message)
    /\ pushes' = Append(pushes, PlainCall(message_text, is_url_message))
    /\ pc' = "FORMATTED"
    /\ UNCHANGED <<env, lockVars, concVars, args, message_text, is_url_message, gs, summary, payload,
                   inbox, outcome, fetches, openaiCalls, curlRuns, replies>>

\* save_command, "else:" of the trigger: short messages
FormatShort ==
    /\ pc = "CLASSIFIED"
    /\ ~Trigger(message_text, is_url_message)
    /\ locals' = PlainLocals(is_url_message)
    /\ pushes' = Append(pushes, PlainCall(message_text, is_url_message))
    /\ pc' = "FORMATTED"
    /\ UNCHANGED <<env, lockVars, concVars, args, message_text, is_url_message, gs, summary, payload,
                   inbox, outcome, fetches, openaiCalls, curlRuns, replies>>

LastPush == pushes[Len(pushes)]

\* push_to_siyuan without SIYUAN_TOKEN
PushNoToken ==
    /\ pc = "FORMATTED"
    /\ ~env.SIYUAN_TOKEN
    /\ outcome' = [returned |-> TRUE, success |-> FALSE, response |-> "SIYUAN_TOKEN not found"]
    /\ pc' = "FAILED"
    /\ UNCHANGED <<env, lockVars, concVars, args, message_text, is_url_message, gs, summary, locals,
                   payload, inbox, fetches, openaiCalls, pushes, curlRuns, replies>>

\* push_to_siyuan builds the payload and starts curl (no --max-time, and
\* subprocess.run without timeout): it waits until the inbox answers
PushRunCurl(answers) ==
    /\ pc = "FORMATTED"
    /\ env.SIYUAN_TOKEN
    /\ payload' = [built |-> TRUE,
                   title |-> IF Truthy(LastPush.title) THEN LastPush.title.v
                             ELSE TelegramTitle,
                   content |-> LastPush.content]
    /\ curlRuns' = curlRuns + 1
    /\ inbox' = answers
    /\ pc' = "FORWARDING"
    /\ UNCHANGED <<env, lockVars, concVars, args, message_text, is_url_message, gs, summary, locals,
                   outcome, fetches, openaiCalls, pushes, replies>>

\* subprocess.run comes back: returncode 0 is success, anything else and any
\* exception is (False, message)
CurlReturns(o) ==
    /\ pc = "FORWARDING"
    /\ inbox = "responds"
    /\ outcome' = [returned |-> TRUE, success |-> (o = "rc_zero"),
                   response |-> IF o = "rc_zero" THEN "Message successfully sent"
                                ELSE IF o = "rc_nonzero" THEN "Failed to send message"
                                ELSE "Failed to execute curl command"]
    /\ pc' = IF o = "rc_zero" THEN "SUCCEEDED" ELSE "FAILED"
    /\ UNCHANGED <<env, lockVars, concVars, args, message_text, is_url_message, gs, summary, locals,
                   payload, inbox, fetches, openaiCalls, pushes, curlRuns, replies>>

\* variant: the AI branch is tested before the forward's outcome
ReplyFor_AiFirst(success, l) ==
    IF l.ai_used /\ Truthy(l.summary_text)
    THEN [text |-> TXT_SEND_SUCCESS_WITH_TITLE, title |-> l.summary_text.v]
    ELSE IF ~success THEN [text |-> TXT_SEND_FAILED, title |-> << >>]
    ELSE IF Truthy(l.custom_title)
         THEN [text |-> TXT_SEND_SUCCESS_WITH_TITLE, title |-> l.custom_title.v]
    ELSE [text |-> TXT_SEND_SUCCESS, title |-> << >>]

\* variant: the custom-title branch is missing
ReplyFor_NoCustomTitle(success, l) ==
    IF ~success THEN [text |-> TXT_SEND_FAILED, title |-> << >>]
    ELSE IF l.ai_used /\ Truthy(l.summary_text)
         THEN [text |-> TXT_SEND_SUCCESS_WITH_TITLE, title |-> l.summary_text.v]
    ELSE [text |-> TXT_SEND_SUCCESS, title |-> << >>]

\* the reply chosen at the end of save_command
ReplyFor(success, l) ==
    IF ~success THEN [text |-> TXT_SEND_FAILED, title |-> << >>]
    ELSE IF l.ai_used /\ Truthy(l.summary_text)
         THEN [text |-> TXT_SEND_SUCCESS_WITH_TITLE, title |-> l.summary_text.v]
    ELSE IF Truthy(l.custom_title)
         THEN [text |-> TXT_SEND_SUCCESS_WITH_TITLE, title |-> l.custom_title.v]
    ELSE [text |-> TXT_SEND_SUCCESS, title |-> << >>]

Notify ==
    /\ pc \in {"SUCCEEDED", "FAILED"}
    /\ replies' = Append(replies, ReplyFor(outcome.success, locals))
    /\ pc' = "NOTIFIED"
    /\ UNCHANGED <<env, lockVars, concVars, args, message_text, is_url_message, gs, summary, locals,
                   payload, inbox, outcome, fetches, openaiCalls, pushes, curlRuns>>

\* save_command is over (returned, or left by an exception): the handler's
\* locals are gone
Return ==
    /\ pc \in {"NOTIFIED", "CRASHED"}
    /\ pc' = "idle"
    /\ args' = << >>
    /\ message_text' = << >>
    /\ is_url_message' = FALSE
    /\ gs' = NoFrame
    /\ summary' = NoSummary
    /\ locals' = InitLocals
    /\ payload' = NoPayload
    /\ inbox' = "unused"
    /\ outcome' = NoOutcome
    /\ fetches' = << >>
    /\ openaiCalls' = << >>
    /\ pushes' = << >>
    /\ curlRuns' = 0
    /\ replies' = << >>
    /\ UNCHANGED <<env, lockVars, concVars>>

Next ==
    \/ \E a \in ArgsInputs : Receive(a)
    \/ MissingContent
    \/ Classify
    \/ CallGenerateSummary
    \/ \E r \in FetchResponses : ScrapeUrl(r)
    \/ SkipScrape
    \/ NoOpenAIClient
    \/ \E r \in SummarizerResponses : CallOpenAI(r)
    \/ FormatWithSummary
    \/ FormatDegraded
    \/ FormatShort
    \/ PushNoToken
    \/ \E a \in {"responds", "stalls"} : PushRunCurl(a)
    \/ \E o \in CurlOutcomes : CurlReturns(o)
    \/ Notify
    \/ Return

Spec == Init /\ [][Next]_vars

\* the event loop keeps running the handler; an external call comes back
\* when it is bounded or when the service answers
FairSpec == Spec /\ WF_vars(Next)

TypeOK ==
    /\ pc \in {"idle", "RECEIVED", "CLASSIFIED", "gs_entry", "gs_client", "ENRICHED",
               "FORMATTED", "FORWARDING", "SUCCEEDED", "FAILED", "NOTIFIED", "CRASHED"}
    /\ curlRuns \in 0..2
    /\ inbox \in {"unused", "responds", "stalls"}

\* ------------------------------------------------- main.py: the lock file
\* a process is started: python main.py
StartProcess(p) ==
    /\ procPc[p] \in {"not_started", "exited"}
    /\ procPc' = [procPc EXCEPT ![p] = "open"]
    /\ ran' = [ran EXCEPT ![p] = FALSE]
    /\ exitPath' = [exitPath EXCEPT ![p] = "none"]
    /\ UNCHANGED <<saveVars, concVars, lock_file_handle, lockHolders, lockFile>>

\* acquire_lock: open(LOCK_FILE, "w") creates or truncates the file
OpenLockFile(p) ==
    /\ procPc[p] = "open"
    /\ lock_file_handle' = [lock_file_handle EXCEPT ![p] = TRUE]
    /\ lockFile' = 0
    /\ procPc' = [procPc EXCEPT ![p] = "flock"]
    /\ UNCHANGED <<saveVars, concVars, lockHolders, ran, exitPath>>

\* acquire_lock: open raises IOError; acquire_lock returns False and main
\* leaves through sys.exit(1)
OpenFails(p) ==
    /\ procPc[p] = "open"
    /\ procPc' = [procPc EXCEPT ![p] = "exited"]
    /\ exitPath' = [exitPath EXCEPT ![p] = "lock_failed"]
    /\ UNCHANGED <<saveVars, concVars, lock_file_handle, lockHolders, lockFile, ran>>

\* flock(LOCK_EX | LOCK_NB) on a file no other open file holds locked
FlockAcquired(p) ==
    /\ procPc[p] = "flock"
    /\ lockHolders = {}
    /\ lockHolders' = {p}
    /\ procPc' = [procPc EXCEPT ![p] = "write_pid"]
    /\ UNCHANGED <<saveVars, concVars, lock_file_handle, lockFile, ran, exitPath>>

\* variant: a refused flock is taken for an acquired one
FlockBlocked_ReturnsTrue(p) ==
    /\ procPc[p] = "flock"
    /\ lockHolders # {}
    /\ lock_file_handle' = [lock_file_handle EXCEPT ![p] = FALSE]
    /\ procPc' = [procPc EXCEPT ![p] = "main_try"]
    /\ UNCHANGED <<saveVars, concVars, lockHolders, lockFile, ran, exitPath>>

\* flock raises because the lock is held: the handle is closed and dropped,
\* acquire_lock returns False and main leaves through sys.exit(1)
FlockBlocked(p) ==
    /\ procPc[p] = "flock"
    /\ lockHolders # {}
    /\ lock_file_handle' = [lock_file_handle EXCEPT ![p] = FALSE]
    /\ procPc' = [procPc EXCEPT ![p] = "exited"]
    /\ exitPath' = [exitPath EXCEPT ![p] = "lock_failed"]
    /\ UNCHANGED <<saveVars, concVars, lockHolders, lockFile, ran>>

\* the PID is written and flushed; acquire_lock returns True
WritePid(p) ==
    /\ procPc[p] = "write_pid"
    /\ lockFile' = p
    /\ procPc' = [procPc EXCEPT ![p] = "main_try"]
    /\ UNCHANGED <<saveVars, concVars, lock_file_handle, lockHolders, ran, exitPath>>

\* write or flush raises IOError: the except branch closes the handle, which
\* gives the lock back, and acquire_lock returns False
WritePidFails(p) ==
    /\ procPc[p] = "write_pid"
    /\ lock_file_handle' = [lock_file_handle EXCEPT ![p] = FALSE]
    /\ lockHolders' = lockHolders \ {p}
    /\ procPc' = [procPc EXCEPT ![p] = "exited"]
    /\ exitPath' = [exitPath EXCEPT ![p] = "lock_failed"]
    /\ UNCHANGED <<saveVars, concVars, lockFile, ran>>

\* main, inside try: TELEGRAM_BOT_TOKEN is missing, return
TokenMissing(p) ==
    /\ procPc[p] = "main_try"
    /\ procPc' = [procPc EXCEPT ![p] = "finally"]
    /\ exitPath' = [exitPath EXCEPT ![p] = "no_token"]
    /\ UNCHANGED <<saveVars, concVars, lock_file_handle, lockHolders, lockFile, ran>>

\* main, inside try: building the application raises
SetupRaises(p) ==
    /\ procPc[p] = "main_try"
    /\ procPc' = [procPc EXCEPT ![p] = "finally"]
    /\ exitPath' = [exitPath EXCEPT ![p] = "exception"]
    /\ UNCHANGED <<saveVars, concVars, lock_file_handle, lockHolders, lockFile, ran>>

\* application.run_polling()
StartPolling(p) ==
    /\ procPc[p] = "main_try"
    /\ procPc' = [procPc EXCEPT ![p] = "polling"]
    /\ ran' = [ran EXCEPT ![p] = TRUE]
    /\ UNCHANGED <<saveVars, concVars, lock_file_handle, lockHolders, lockFile, exitPath>>

\* run_polling returns (the bot is stopped) or raises
PollingEnds(p, how) ==
    /\ procPc[p] = "polling"
    /\ procPc' = [procPc EXCEPT ![p] = "finally"]
    /\ exitPath' = [exitPath EXCEPT ![p] = how]
    /\ UNCHANGED <<saveVars, concVars, lock_file_handle, lockHolders, lockFile, ran>>

\* finally: release_lock() unlocks and closes the handle if there is one
ReleaseLock(p) ==
    /\ procPc[p] = "finally"
    /\ IF lock_file_handle[p]
       THEN /\ lockHolders' = lockHolders \ {p}
            /\ lock_file_handle' = [lock_file_handle EXCEPT ![p] = FALSE]
       ELSE UNCHANGED <<lockHolders, lock_file_handle>>
    /\ procPc' = [procPc EXCEPT ![p] = "exited"]
    /\ UNCHANGED <<saveVars, concVars, lockFile, ran, exitPath>>

LockNext ==
    \E p \in Procs :
        \/ StartProcess(p)
        \/ OpenLockFile(p)
        \/ OpenFails(p)
        \/ FlockAcquired(p)
        \/ FlockBlocked(p)
        \/ WritePid(p)
        \/ WritePidFails(p)
        \/ TokenMissing(p)
        \/ SetupRaises(p)
        \/ StartPolling(p)
        \/ \E how \in {"stopped", "exception"} : PollingEnds(p, how)
        \/ ReleaseLock(p)

LockSpec == Init /\ [][LockNext]_vars

\* --------------------------------------------- handlers side by side
\* The application may run several save_command coroutines at once.  Each
\* has its own frame; what they share is the environment.  The steps are
\* those of the single handler, taken by any invocation in any order.
\* The inputs and answers are one of each kind that changes the payload or
\* the reply.
ConcArgs == { << >>, <<Hello>>, <<ShortUrl>> }
ConcFetchResponses ==
    {r \in FetchResponses : r.kind = "http_error" \/ (r.title.set /\ TLen(r.text) = 10)}
ConcSummarizerResponses ==
    {r \in SummarizerResponses :
        r.kind = "api_error" \/ (r.kind = "json" /\ DOMAIN r.json = {"h", "s"} /\ r.json["h"] = Headline)}
ConcCurlOutcomes == {"rc_zero", "rc_nonzero"}

\* variant: the locals live in one module-level slot
Slot_Shared(i) == 1

\* the frame that holds the locals of invocation i
Slot(i) == i

Locals(i) == cframe[Slot(i)]

SetState(i, s) == cstate' = [cstate EXCEPT ![i] = s]
SetLocals(i, l) == cframe' = [cframe EXCEPT ![Slot(i)] = l]

CReceive(i, a) ==
    /\ cstate[i].pc = "idle"
    /\ SetState(i, [IdleInvocation EXCEPT !.pc = "RECEIVED", !.args = a])
    /\ UNCHANGED <<saveVars, lockVars, cframe>>

CMissingContent(i) ==
    /\ cstate[i].pc = "RECEIVED"
    /\ Len(cstate[i].args) = 0
    /\ SetState(i, [cstate[i] EXCEPT
           !.replies = Append(@, [text |-> TXT_MISSING_CONTENT, title |-> << >>]),
           !.pc = "NOTIFIED"])
    /\ UNCHANGED <<saveVars, lockVars, cframe>>

\* classification, then title = None, ai_used = False, ... in the new frame
CClassify(i) ==
    /\ cstate[i].pc = "RECEIVED"
    /\ Len(cstate[i].args) > 0
    /\ SetState(i, [cstate[i] EXCEPT
           !.message_text = Join(cstate[i].args),
           !.is_url_message = is_url(Join(cstate[i].args)),
           !.pc = "CLASSIFIED"])
    /\ SetLocals(i, InitLocals)
    /\ UNCHANGED <<saveVars, lockVars>>

CCallGenerateSummary(i) ==
    /\ cstate[i].pc = "CLASSIFIED"
    /\ Trigger(cstate[i].message_text, cstate[i].is_url_message)
    /\ SetState(i, [cstate[i] EXCEPT
           !.gs = [text |-> cstate[i].message_text, is_scraped |-> FALSE],
           !.pc = "gs_entry"])
    /\ UNCHANGED <<saveVars, lockVars, cframe>>

CScrapeUrl(i, resp) ==
    /\ cstate[i].pc = "gs_entry"
    /\ NeedsScrape(cstate[i].gs)
    /\ SetState(i, [cstate[i] EXCEPT
           !.got.fetch = resp,
           !.gs = IF resp.kind = "page"
                  THEN [text |-> ScrapedText(Strip(cstate[i].gs.text), resp),
                        is_scraped |-> TRUE]
                  ELSE @,
           !.pc = IF resp.kind = "page" THEN "gs_entry" ELSE "gs_client"])
    /\ UNCHANGED <<saveVars, lockVars, cframe>>

CSkipScrape(i) ==
    /\ cstate[i].pc = "gs_entry"
    /\ ~NeedsScrape(cstate[i].gs)
    /\ SetState(i, [cstate[i] EXCEPT !.pc = "gs_client"])
    /\ UNCHANGED <<saveVars, lockVars, cframe>>

CNoOpenAIClient(i) ==
    /\ cstate[i].pc = "gs_client"
    /\ ~env.OPENAI_TOKEN
    /\ SetState(i, [cstate[i] EXCEPT
           !.summary = [returned |-> TRUE, success |-> FALSE, result |-> << >>],
           !.pc = "ENRICHED"])
    /\ UNCHANGED <<saveVars, lockVars, cframe>>

CCallOpenAI(i, resp) ==
    /\ cstate[i].pc = "gs_client"
    /\ env.OPENAI_TOKEN
    /\ SetState(i, [cstate[i] EXCEPT
           !.got.summarizer = resp,
           !.summary = ParseSummary(resp),
           !.pc = "ENRICHED"])
    /\ UNCHANGED <<saveVars, lockVars, cframe>>

\* what the AI branch assigns and pushes for a summarizer result
AiLocals(result) ==
    [ai_used |-> TRUE,
     summary_text |-> Some(result["h"]),
     title |-> Some(AiTitle(result["h"])),
     custom_title |-> Some(result["h"])]

AiCall(result, text, isurl) ==
    [content |-> AiContent(result, text, isurl, User, Hostname),
     title |-> Some(AiTitle(result["h"]))]

CFormatWithSummary(i) ==
    /\ cstate[i].pc = "ENRICHED"
    /\ cstate[i].summary.success
    /\ SetLocals(i, AiLocals(cstate[i].summary.result))
    /\ IF "s" \in DOMAIN cstate[i].summary.result
       THEN SetState(i, [cstate[i] EXCEPT
                !.pushes = Append(@, AiCall(cstate[i].summary.result,
                                            cstate[i].message_text,
                                            cstate[i].is_url_message)),
                !.pc = "FORMATTED"])
       ELSE SetState(i, [cstate[i] EXCEPT !.pc = "CRASHED"])
    /\ UNCHANGED <<saveVars, lockVars>>

CFormatDegraded(i) ==
    /\ cstate[i].pc = "ENRICHED"
    /\ ~cstate[i].summary.success
    /\ SetLocals(i, PlainLocals(cstate[i].is_url_message))
    /\ SetState(i, [cstate[i] EXCEPT
           !.pushes = Append(@, PlainCall(cstate[i].message_text,
                                          cstate[i].is_url_message)),
           !.pc = "FORMATTED"])
    /\ UNCHANGED <<saveVars, lockVars>>

CFormatShort(i) ==
    /\ cstate[i].pc = "CLASSIFIED"
    /\ ~Trigger(cstate[i].message_text, cstate[i].is_url_message)
    /\ SetLocals(i, PlainLocals(cstate[i].is_url_message))
    /\ SetState(i, [cstate[i] EXCEPT
           !.pushes = Append(@, PlainCall(cstate[i].message_text,
                                          cstate[i].is_url_message)),
           !.pc = "FORMATTED"])
    /\ UNCHANGED <<saveVars, lockVars>>

CPushNoToken(i) ==
    /\ cstate[i].pc = "FORMATTED"
    /\ ~env.SIYUAN_TOKEN
    /\ SetState(i, [cstate[i] EXCEPT
           !.outcome = [returned |-> TRUE, success |-> FALSE,
                        response |-> "SIYUAN_TOKEN not found"],
           !.pc = "FAILED"])
    /\ UNCHANGED <<saveVars, lockVars, cframe>>

CPushRunCurl(i, answers) ==
    /\ cstate[i].pc = "FORMATTED"
    /\ env.SIYUAN_TOKEN
    /\ SetState(i, [cstate[i] EXCEPT !.inbox = answers, !.pc = "FORWARDING"])
    /\ UNCHANGED <<saveVars, lockVars, cframe>>

CCurlReturns(i, o) ==
    /\ cstate[i].pc = "FORWARDING"
    /\ cstate[i].inbox = "responds"
    /\ SetState(i, [cstate[i] EXCEPT
           !.got.curl = o,
           !.outcome = [returned |-> TRUE, success |-> (o = "rc_zero"),
                        response |-> IF o = "rc_zero" THEN "Message successfully sent"
                                     ELSE IF o = "rc_nonzero" THEN "Failed to send message"
                                     ELSE "Failed to execute curl command"],
           !.pc = IF o = "rc_zero" THEN "SUCCEEDED" ELSE "FAILED"])
    /\ UNCHANGED <<saveVars, lockVars, cframe>>

CNotify(i) ==
    /\ cstate[i].pc \in {"SUCCEEDED", "FAILED"}
    /\ SetState(i, [cstate[i] EXCEPT
           !.replies = Append(@, ReplyFor(cstate[i].outcome.success, Locals(i))),
           !.pc = "NOTIFIED"])
    /\ UNCHANGED <<saveVars, lockVars, cframe>>

\* the coroutine is over and its frame is gone
CReturn(i) ==
    /\ cstate[i].pc \in {"NOTIFIED", "CRASHED"}
    /\ SetState(i, IdleInvocation)
    /\ SetLocals(i, InitLocals)
    /\ UNCHANGED <<saveVars, lockVars>>

ConcNext ==
    \E i \in Invs :
        \/ \E a \in ConcArgs : CReceive(i, a)
        \/ CMissingContent(i)
        \/ CClassify(i)
        \/ CCallGenerateSummary(i)
        \/ \E r \in ConcFetchResponses : CScrapeUrl(i, r)
        \/ CSkipScrape(i)
        \/ CNoOpenAIClient(i)
        \/ \E r \in ConcSummarizerResponses : CCallOpenAI(i, r)
        \/ CFormatWithSummary(i)
        \/ CFormatDegraded(i)
        \/ CFormatShort(i)
        \/ CPushNoToken(i)
        \/ CPushRunCurl(i, "responds")
        \/ \E o \in ConcCurlOutcomes : CCurlReturns(i, o)
        \/ CNotify(i)
        \/ CReturn(i)

ConcSpec == Init /\ [][ConcNext]_vars

\* =================================================================== claims
Started == pc # "idle" /\ Len(args) > 0
Terminal == pc \in {"NOTIFIED", "CRASHED"}
PlainReply(t) == [text |-> t, title |-> << >>]
TitledReply(t) == [text |-> TXT_SEND_SUCCESS_WITH_TITLE, title |-> t]

\* the render mode a body belongs to
BodyMode(content) ==
    CASE content.template = "AI" -> "ai"
      [] content.template = "URL Bookmark" -> "url"
      [] content.template = "input via telegram" -> "text"
      [] OTHER -> "none"

\* the render mode a title belongs to, read off its text
TitleMode(t) ==
    IF StartsWith(t, <<"U", "R", "L", ":", " ">>) THEN "url"
    ELSE IF t = TelegramTitle THEN "text"
    ELSE IF TLen(t) > TLen(Today) /\ Take(t, TLen(Today) + 1) = Cat(Today, Lit(<<" ">>))
         THEN "ai"
    ELSE "none"

\* C1: every invocation of /s ends with exactly one reply, on every path, and
\* no error of a collaborator leaves save_command uncaught.
C1_ExactlyOneReply ==
    /\ pc # "CRASHED"
    /\ Len(replies) <= 1
    /\ (pc = "NOTIFIED" => Len(replies) = 1)

\* C2: when the summarizer reported failure the save goes on: the payload
\* handed to the inbox is the URL-plain template for a URL and the Text-plain
\* template otherwise, title and body, with nothing of the AI template in it.
C2_DegradeLaw ==
    (summary.returned /\ ~summary.success) =>
        /\ pc \in {"ENRICHED", "FORMATTED", "FORWARDING", "SUCCEEDED", "FAILED", "NOTIFIED"}
        /\ ~locals.ai_used
        /\ pc # "ENRICHED" =>
             /\ Len(pushes) = 1
             /\ BodyMode(pushes[1].content) = (IF is_url_message THEN "url" ELSE "text")
             /\ TitleMode(pushes[1].title.v) = (IF is_url_message THEN "url" ELSE "text")
             /\ pushes[1].content.heading = << >>
             /\ pushes[1].content.summary = << >>

\* a URL whose fetch failed and whose summarizer call failed is forwarded
C2_Witness ==
    /\ pc = "FORWARDING"
    /\ is_url_message
    /\ Len(fetches) = 1 /\ ~gs.is_scraped
    /\ Len(openaiCalls) = 1
    /\ summary.returned /\ ~summary.success

\* C3: a failed forward is answered with TXT_SEND_FAILED and nothing else,
\* whatever the enrichment did and whether or not the input was a URL.
C3_FailedForwardReply ==
    (pc = "NOTIFIED" /\ outcome.returned /\ ~outcome.success) =>
        replies = <<PlainReply(TXT_SEND_FAILED)>>

\* a failed forward of an AI-enriched URL
C3_Witness ==
    /\ pc = "NOTIFIED"
    /\ outcome.returned /\ ~outcome.success
    /\ locals.ai_used /\ is_url_message
    /\ curlRuns = 1

\* C4 (as stated): forward succeeded, no AI, URL input: the reply carries the
\* title of the forwarded payload.
C4_ReplyCarriesPayloadTitle ==
    (pc = "NOTIFIED" /\ outcome.success /\ ~locals.ai_used /\ is_url_message) =>
        replies = <<TitledReply(payload.title)>>

\* C4 (amended): forward succeeded, no AI, URL input: the payload is titled
\* "URL: " + the first 30 characters of the URL (+ "..."), and the reply is
\* the titled success text carrying the fixed label "URL bookmark".
C4_ReplyCarriesUrlLabel ==
    (pc = "NOTIFIED" /\ outcome.success /\ ~locals.ai_used /\ is_url_message) =>
        /\ payload.title = UrlTitle(Strip(message_text))
        /\ replies = <<TitledReply(UrlBookmarkLabel)>>

\* a URL longer than the title prefix, saved without AI
C4_Witness ==
    /\ pc = "NOTIFIED"
    /\ outcome.success /\ ~locals.ai_used /\ is_url_message
    /\ TLen(message_text) > UrlTitleChars

\* C5 (as stated): forward succeeded with AI: the reply is the titled success
\* text carrying the summarizer's headline, whatever the headline.
C5_ReplyCarriesHeadline ==
    (pc = "NOTIFIED" /\ outcome.success /\ locals.ai_used) =>
        replies = <<TitledReply(summary.result["h"])>>

\* C5 (amended): forward succeeded with AI: a non-empty headline is carried
\* by the titled success text; an empty headline gets the plain success text.
C5_ReplyCarriesNonEmptyHeadline ==
    (pc = "NOTIFIED" /\ outcome.success /\ locals.ai_used) =>
        /\ payload.title = AiTitle(summary.result["h"])
        /\ replies = IF TLen(summary.result["h"]) > 0
                     THEN <<TitledReply(summary.result["h"])>>
                     ELSE <<PlainReply(TXT_SEND_SUCCESS)>>

\* an AI-enriched save whose headline is empty
C5_Witness ==
    /\ pc = "NOTIFIED"
    /\ outcome.success /\ locals.ai_used
    /\ TLen(summary.result["h"]) = 0

\* C6: forward succeeded for a non-URL input without AI: Text-plain body,
\* "telegram <timestamp>" title, and the fixed plain success text as reply.
C6_PlainTextSave ==
    (pc = "NOTIFIED" /\ outcome.success /\ ~is_url_message /\ ~locals.ai_used) =>
        /\ payload.content.template = "input via telegram"
        /\ payload.content.display = [link |-> FALSE, text |-> message_text]
        /\ payload.title = TelegramTitle
        /\ replies = <<PlainReply(TXT_SEND_SUCCESS)>>

\* a long text whose summarizer call failed, saved plainly
C6_Witness ==
    /\ pc = "NOTIFIED"
    /\ outcome.success /\ ~is_url_message /\ ~locals.ai_used
    /\ TLen(message_text) = LongTextLen
    /\ Len(openaiCalls) = 1

\* C7: a started pipeline hands exactly one payload to push_to_siyuan, which
\* runs the transport at most once and always returns a (success, text) pair.
C7_ForwardExactlyOnce ==
    /\ Len(pushes) <= 1
    /\ curlRuns <= Len(pushes)
    /\ (Started /\ Terminal) => (Len(pushes) = 1 /\ outcome.returned)

\* C8: /s without text: one "missing content" reply, and no fetch, no
\* summarizer call and no forward.
C8_MissingContentOnly ==
    (pc # "idle" /\ Len(args) = 0) =>
        /\ pc \in {"RECEIVED", "NOTIFIED"}
        /\ replies = IF pc = "NOTIFIED" THEN <<PlainReply(TXT_MISSING_CONTENT)>> ELSE << >>
        /\ Len(fetches) = 0 /\ Len(openaiCalls) = 0
        /\ Len(pushes) = 0 /\ curlRuns = 0
        /\ ~summary.returned /\ ~outcome.returned /\ ~payload.built

C8_Witness ==
    /\ pc = "NOTIFIED"
    /\ Len(args) = 0
    /\ Len(replies) = 1

\* C9: the payload's mode follows (usedAI, isURL) by precedence, its title and
\* its body belong to that same mode, and the title is not empty.
ModeOf(usedAI, isURL) == IF usedAI THEN "ai" ELSE IF isURL THEN "url" ELSE "text"

C9_OneRenderMode ==
    /\ \A i \in 1..Len(pushes) :
          /\ pushes[i].title.set
          /\ TLen(pushes[i].title.v) > 0
          /\ BodyMode(pushes[i].content) = ModeOf(locals.ai_used, is_url_message)
          /\ TitleMode(pushes[i].title.v) = ModeOf(locals.ai_used, is_url_message)
    /\ payload.built =>
          /\ TLen(payload.title) > 0
          /\ BodyMode(payload.content) = ModeOf(locals.ai_used, is_url_message)
          /\ TitleMode(payload.title) = ModeOf(locals.ai_used, is_url_message)

\* a URL that only the startswith test recognises, forwarded as URL-plain
C9_Witness ==
    /\ payload.built
    /\ message_text = NoDotUrl
    /\ BodyMode(payload.content) = "url"
    /\ ~locals.ai_used

\* C10: a started pipeline runs to completion: no external call can hang it
\* and it reaches NOTIFIED.
C10_RunsToCompletion == (pc = "CLASSIFIED") ~> (pc = "NOTIFIED")

\* the pipeline has left the classification and, if entered, the enrichment
PastEnrichment ==
    pc \in {"ENRICHED", "FORMATTED", "FORWARDING", "SUCCEEDED", "FAILED", "NOTIFIED",
            "CRASHED"}

\* generate_summary was called by this invocation
SummarizerEntered == gs # NoFrame

\* C12: the summarizer is entered exactly for URLs and for texts longer than
\* 128 characters; otherwise there is no fetch and no summarizer call and the
\* payload is formatted with usedAI = false; nothing is forwarded for a URL
\* before the summarizer has returned.
C12_TriggerIffUrlOrLong ==
    /\ (Started /\ pc \notin {"RECEIVED", "CLASSIFIED"}) =>
          (SummarizerEntered <=> (is_url_message \/ TLen(message_text) > LongThreshold))
    /\ (Started /\ pc # "RECEIVED" /\ ~is_url_message
          /\ TLen(message_text) <= LongThreshold) =>
          /\ pc \in {"CLASSIFIED", "FORMATTED", "FORWARDING", "SUCCEEDED", "FAILED",
                     "NOTIFIED"}
          /\ Len(fetches) = 0 /\ Len(openaiCalls) = 0
          /\ ~summary.returned /\ ~locals.ai_used
    /\ (Len(pushes) > 0 /\ is_url_message) => summary.returned

\* a short URL went through the summarizer and was forwarded
C12_Witness ==
    /\ pc = "FORWARDING"
    /\ is_url_message
    /\ TLen(message_text) <= UrlTitleChars
    /\ summary.returned

\* C13: at most one fetch per invocation, of the URL that was sent in; after a
\* successful fetch generate_summary runs with is_scraped = true on a text
\* that is not fetched again.
C13_FetchAtMostOnce ==
    /\ Len(fetches) <= 1
    /\ Len(fetches) = 1 =>
          /\ is_url_message
          /\ fetches[1].url = Strip(message_text)
          /\ fetches[1].ok <=> gs.is_scraped
          /\ fetches[1].ok => ~NeedsScrape(gs)
    /\ gs.is_scraped => Len(fetches) = 1

\* the summarizer was called on the text of a fetched page
C13_Witness ==
    /\ Len(fetches) = 1 /\ fetches[1].ok
    /\ Len(openaiCalls) = 1
    /\ openaiCalls[1].is_scraped

\* C14: a failed fetch does not end the enrichment: the summarizer goes on
\* with the URL and is_scraped = false; is_scraped = true reaches the
\* summarizer only after a successful fetch; and the branch taken after the
\* summarizer returned follows its result alone.
C14_FetchFailureFallsThrough ==
    /\ \A i \in 1..Len(openaiCalls) :
          /\ openaiCalls[i].is_scraped <=> (Len(fetches) = 1 /\ fetches[1].ok)
          /\ ~openaiCalls[i].is_scraped =>
                openaiCalls[i].content = truncate_for_openai(message_text)
    /\ (PastEnrichment /\ Len(fetches) = 1 /\ ~fetches[1].ok) =>
          /\ summary.returned
          /\ env.OPENAI_TOKEN => Len(openaiCalls) = 1
    /\ (Len(pushes) = 1 /\ summary.returned) =>
          /\ locals.ai_used <=> summary.success
          /\ BodyMode(pushes[1].content) = ModeOf(summary.success, is_url_message)

\* the fetch failed and the summarizer was asked about the URL itself
C14_Witness ==
    /\ Len(fetches) = 1 /\ ~fetches[1].ok
    /\ Len(openaiCalls) = 1
    /\ ~openaiCalls[1].is_scraped
    /\ summary.success

\* C15: usedAI = true only with a summarizer result that succeeded and carries
\* both the headline and the summary body.
C15_UsedAiHasBothFields ==
    locals.ai_used =>
        /\ summary.returned /\ summary.success
        /\ {"h", "s"} \subseteq DOMAIN summary.result

\* C16: what truncate_for_openai hands to the summarizer is at most 2048
\* characters long, is the text itself when that has at most 2048 characters,
\* and otherwise is its first 2045 characters followed by "...".
C16_TruncationCeiling ==
    \A i \in 1..Len(openaiCalls) :
        LET out == openaiCalls[i].content
        IN  /\ TLen(out) <= MAX_CONTENT_LENGTH
            /\ TLen(gs.text) <= MAX_CONTENT_LENGTH => out = gs.text
            /\ TLen(gs.text) > MAX_CONTENT_LENGTH =>
                  /\ TLen(out) = MAX_CONTENT_LENGTH
                  /\ \A k \in 0..2 : CharAt(out, MAX_CONTENT_LENGTH - k) = "."
                  /\ Take(out, MAX_CONTENT_LENGTH - 3) = Take(gs.text, MAX_CONTENT_LENGTH - 3)

\* a text one character over the ceiling was handed to the summarizer
C16_Witness ==
    /\ Len(openaiCalls) = 1
    /\ TLen(gs.text) = MAX_CONTENT_LENGTH + 1
    /\ TLen(openaiCalls[1].content) = MAX_CONTENT_LENGTH

\* a process is between a successful acquire_lock and its release_lock
InsideLock(p) == procPc[p] \in {"main_try", "polling", "finally"}

\* C17: at most one process holds the lock and runs the bot at a time; a
\* process that was refused the lock never polls and leaves the holder's lock
\* alone; a process that acquired the lock has given it back once main is
\* left, whichever way.
C17_SingleInstance ==
    /\ Cardinality(lockHolders) <= 1
    /\ Cardinality({p \in Procs : procPc[p] = "polling"}) <= 1
    /\ \A p \in Procs :
          /\ InsideLock(p) => (p \in lockHolders /\ lock_file_handle[p])
          /\ exitPath[p] = "lock_failed" => (~ran[p] /\ procPc[p] = "exited")
          /\ procPc[p] = "exited" => (p \notin lockHolders /\ ~lock_file_handle[p])

\* one process polls while another was refused the lock and a third has
\* left main through the missing-token return
C17_Witness ==
    \E p, q, r \in Procs :
        /\ procPc[p] = "polling"
        /\ procPc[q] = "exited" /\ exitPath[q] = "lock_failed"
        /\ procPc[r] = "exited" /\ exitPath[r] = "no_token"

\* what one invocation must push and reply, from its own words and the
\* answers it got
ExpectedSummary(s) == ParseSummary(s.got.summarizer)

ExpectedAi(s) ==
    /\ Trigger(Join(s.args), is_url(Join(s.args)))
    /\ ExpectedSummary(s).success

ExpectedCall(s) ==
    IF ExpectedAi(s)
    THEN AiCall(ExpectedSummary(s).result, Join(s.args), is_url(Join(s.args)))
    ELSE PlainCall(Join(s.args), is_url(Join(s.args)))

ExpectedReply(s) ==
    ReplyFor(s.got.curl = "rc_zero",
             IF ExpectedAi(s) THEN AiLocals(ExpectedSummary(s).result)
             ELSE PlainLocals(is_url(Join(s.args))))

\* C11: under every interleaving, the payload and the reply of an invocation
\* are those its own input and the answers it received determine; two
\* invocations with the same input and the same answers have the same payload
\* and the same reply.
C11_IndependentInvocations ==
    \A i \in Invs :
        /\ Len(cstate[i].pushes) <= 1
        /\ Len(cstate[i].pushes) = 1 => cstate[i].pushes[1] = ExpectedCall(cstate[i])
        /\ (cstate[i].pc = "NOTIFIED" /\ Len(cstate[i].args) > 0) =>
              cstate[i].replies = <<ExpectedReply(cstate[i])>>
        /\ \A j \in Invs :
              (/\ cstate[i].pc = cstate[j].pc
               /\ cstate[i].args = cstate[j].args
               /\ cstate[i].got = cstate[j].got) =>
                  /\ cstate[i].pushes = cstate[j].pushes
                  /\ cstate[i].replies = cstate[j].replies

\* a plain text save has been answered while an AI-enriched save of a URL,
\* formatted in between, waits for its forward
C11_Witness ==
    \E i, j \in Invs :
        /\ cstate[i].pc = "NOTIFIED" /\ cstate[i].args = <<Hello>>
        /\ cstate[i].outcome.success
        /\ cstate[j].pc = "FORWARDING" /\ cstate[j].args = <<ShortUrl>>
        /\ cframe[Slot(j)].ai_used

=============================================================================
